---- MODULE Spec2Model ----
(***************************************************************************)
(* Model of the sherman-assistant ingestion and retrieval helpers:         *)
(*   sherman/utils.py, sherman/vector_utils.py and views.scrape_api.       *)
(*                                                                         *)
(* Strings are sequences of one-character strings; Python's None is the    *)
(* value None.  Each pure helper of the code is an operator; the loops of  *)
(* chunk_text and of scrape_api are state machines.                        *)
(***************************************************************************)
EXTENDS Integers, Sequences, FiniteSets, TLC

VARIABLES
    \* ---- chunk_text (utils.py:45-72, vector_utils.py:48-92)
    text,        \* argument text
    chunk_size,  \* argument chunk_size
    overlap,     \* argument overlap
    impl,        \* which module's function: "utils" or "vector_utils"
    start,       \* local cursor
    chunks,      \* local list of emitted chunks
    ranges,      \* <<start, end>> of the slice cut by each loop iteration
    cpc,         \* position: "idle", "call", "loop", "returned"
    \* ---- clean_text (utils.py:37-42, vector_utils.py:25-45)
    clean_in,    \* argument text (a string or None)
    clean_impl,  \* which module's function
    clean_out,   \* returned string
    clean_pc,    \* position: "idle", "call", "returned", "raised"
    \* ---- extract_source_urls (utils.py:193-218)
    answer,      \* argument of the first call
    pass1,       \* <<stripped_answer, urls>> of the first call
    pass2,       \* <<stripped_answer, urls>> of the call on pass1[1]
    ex_pc,       \* position: "idle", "call", "once", "twice"
    \* ---- build_context (utils.py:164-190)
    similar_chunks,  \* argument: sequence of [text, url, title]
    context,         \* returned string
    ctx_pc,          \* position: "idle", "call", "returned"
    \* ---- scrape_api (views.py:138-297) and the Pinecone index it writes
    openai_key,    \* settings.OPENAI_KEY is set
    pinecone_key,  \* settings.PINECONE_KEY is set
    store,         \* ids of the vectors held by the Pinecone index
    run,           \* number of requests started
    pc,            \* position of the handler
    idx,           \* position of the for loop in urls (1-based)
    n_chunks,      \* len(chunks) of the url being processed
    results,       \* local list results
    response,      \* the JsonResponse of the last finished request
    gate,          \* check_url_exists for the current url: raised inside, returned
    embed_calls,   \* get_embedding calls made for the current url
    upsert_calls,  \* index.upsert calls made for the current url
    upserted       \* for the current url: the chunk positions whose get_embedding
                   \* raised, vectors_to_upsert, the index.upsert calls made (the
                   \* batch passed and whether the call raised) and upserted_count

chunkVars == <<text, chunk_size, overlap, impl, start, chunks, ranges, cpc>>
cleanVars == <<clean_in, clean_impl, clean_out, clean_pc>>
extractVars == <<answer, pass1, pass2, ex_pc>>
contextVars == <<similar_chunks, context, ctx_pc>>

ingestVars == <<openai_key, pinecone_key, store, run, pc, idx, n_chunks, results,
                response, gate, embed_calls, upsert_calls, upserted>>

vars == <<chunkVars, cleanVars, extractVars, contextVars, ingestVars>>

\* what the steps of one helper leave alone: the variables of the others
notChunk == <<cleanVars, extractVars, contextVars, ingestVars>>
notClean == <<chunkVars, extractVars, contextVars, ingestVars>>
notExtract == <<chunkVars, cleanVars, contextVars, ingestVars>>
notContext == <<chunkVars, cleanVars, extractVars, ingestVars>>
notIngest == <<chunkVars, cleanVars, extractVars, contextVars>>

\* Python's None: a value no string (sequence of characters) equals
None == <<"None">>

-----------------------------------------------------------------------------
(* Bounds *)

MaxTextLen == 5
MaxChunkSize == 4
MaxIters == 12

-----------------------------------------------------------------------------
(* Python primitives *)

Max(S) == CHOOSE x \in S : \A y \in S : y <= x

Min2(a, b) == IF a < b THEN a ELSE b

Max2(a, b) == IF a > b THEN a ELSE b

\* strings over alphabet A of length at most n
StringsUpTo(A, n) == UNION { [1..k -> A] : k \in 0..n }

\* the characters matched by \s and removed by str.strip
Whitespace == {" ", "\n", "\t"}

IsSpace(c) == c \in Whitespace

\* a slice bound as Python clamps it: negative counts from the end
PyIdx(i, n) == IF i < 0 THEN Max2(i + n, 0) ELSE Min2(i, n)

\* s[i:j]
Slice(s, i, j) ==
    LET lo == PyIdx(i, Len(s))
        hi == PyIdx(j, Len(s))
    IN  IF lo < hi THEN SubSeq(s, lo + 1, hi) ELSE <<>>

\* s.rfind(c, i, j): highest 0-based index of c in s[i:j], -1 when absent
rfind(s, c, i, j) ==
    LET lo == PyIdx(i, Len(s))
        hi == PyIdx(j, Len(s))
        hits == { k \in lo..(hi - 1) : s[k + 1] = c }
    IN  IF hits = {} THEN -1 ELSE Max(hits)

RECURSIVE lstrip(_)
lstrip(s) == IF s # <<>> /\ IsSpace(Head(s)) THEN lstrip(Tail(s)) ELSE s

RECURSIVE rstrip(_)
rstrip(s) ==
    IF s # <<>> /\ IsSpace(s[Len(s)]) THEN rstrip(SubSeq(s, 1, Len(s) - 1)) ELSE s

\* s.strip()
strip(s) == rstrip(lstrip(s))

-----------------------------------------------------------------------------
(* Each helper is exercised by its own specification; the variables of the *)
(* helpers that a specification does not exercise stay at these values.    *)

ChunkIdle ==
    /\ text = <<>>
    /\ chunk_size = 1
    /\ overlap = 0
    /\ impl = "utils"
    /\ start = 0
    /\ chunks = <<>>
    /\ ranges = <<>>
    /\ cpc = "idle"

CleanIdle ==
    /\ clean_in = <<>>
    /\ clean_impl = "utils"
    /\ clean_out = <<>>
    /\ clean_pc = "idle"

ExtractIdle ==
    /\ answer = <<>>
    /\ pass1 = << <<>>, <<>> >>
    /\ pass2 = << <<>>, <<>> >>
    /\ ex_pc = "idle"

ContextIdle ==
    /\ similar_chunks = <<>>
    /\ context = <<>>
    /\ ctx_pc = "idle"

NoResponse == [status |-> "none"]

NoUpsert == [failed |-> {}, vectors |-> <<>>, calls |-> <<>>, count |-> 0]

NoGate == [raised |-> FALSE, exists |-> FALSE]

IngestIdle ==
    /\ openai_key = TRUE
    /\ pinecone_key = TRUE
    /\ store = {}
    /\ run = 0
    /\ pc = "off"
    /\ idx = 0
    /\ n_chunks = 0
    /\ results = <<>>
    /\ response = NoResponse
    /\ gate = NoGate
    /\ embed_calls = 0
    /\ upsert_calls = 0
    /\ upserted = NoUpsert

-----------------------------------------------------------------------------
(* clean_text *)

MaxCleanLen == 5

\* "a" stands for \w, "@" for the characters outside the kept set
CleanAlphabet == {"a", " ", "\n", "@", "."}

\* \w
IsWord(c) == c \in {"a", "b", "_", "0"}

\* the punctuation kept by the character class  \.\,\!\?\;\:\-\(\)
KeptPunctuation == {".", ",", "!", "?", ";", ":", "-", "(", ")"}

\* complement of the class [^\w\s\.\,\!\?\;\:\-\(\)]
IsKept(c) == IsWord(c) \/ IsSpace(c) \/ c \in KeptPunctuation

\* re.sub(r'\s+', ' ', s)
RECURSIVE CollapseWhitespace(_)
CollapseWhitespace(s) ==
    IF s = <<>> THEN <<>>
    ELSE IF IsSpace(Head(s)) THEN <<" ">> \o CollapseWhitespace(lstrip(s))
    ELSE <<Head(s)>> \o CollapseWhitespace(Tail(s))

\* re.sub(r'[^\w\s\.\,\!\?\;\:\-\(\)]', '', s)
RemoveSpecial(s) == SelectSeq(s, IsKept)

\* the three statements shared by both modules, in source order
CleanBody(s) == strip(RemoveSpecial(CollapseWhitespace(s)))

CleanInit ==
    /\ ChunkIdle /\ ExtractIdle /\ ContextIdle /\ IngestIdle
    /\ clean_in \in StringsUpTo(CleanAlphabet, MaxCleanLen) \cup {None}
    /\ clean_impl \in {"utils", "vector_utils"}
    /\ clean_out = <<>>
    /\ clean_pc = "call"

\* the whole function: vector_utils returns "" for a falsy argument,
\* utils passes None to re.sub, which raises TypeError
CleanCall ==
    /\ clean_pc = "call"
    /\ IF clean_impl = "vector_utils" /\ (clean_in = None \/ clean_in = <<>>)
       THEN clean_out' = <<>> /\ clean_pc' = "returned"
       ELSE IF clean_in = None
       THEN clean_out' = <<>> /\ clean_pc' = "raised"
       ELSE clean_out' = CleanBody(clean_in) /\ clean_pc' = "returned"
    /\ UNCHANGED <<clean_in, clean_impl>>
    /\ UNCHANGED notClean

CleanNext == CleanCall

SpecClean == CleanInit /\ [][CleanNext]_vars

\* C10: the output of clean_text has no two consecutive whitespace
\* characters and no character outside the kept set.
C10_Normalized ==
    clean_pc = "returned" =>
        /\ \A k \in 1..(Len(clean_out) - 1) :
              ~(IsSpace(clean_out[k]) /\ IsSpace(clean_out[k + 1]))
        /\ \A k \in 1..Len(clean_out) : IsKept(clean_out[k])

\* C11: in both modules clean_text never raises, and for the empty string
\* and for None it returns the empty string.
C11_EmptyForAbsent ==
    /\ clean_pc # "raised"
    /\ (clean_pc = "returned" /\ clean_in \in {None, <<>>}) => clean_out = <<>>

-----------------------------------------------------------------------------
(* extract_source_urls *)
(* In an answer the element "http://" stands for those seven characters in *)
(* a row; no other element of the alphabet occurs in them, so the pattern  *)
(* https?://[^\s\n]+ matches exactly at such an element that is followed   *)
(* by a non-whitespace element.                                            *)

MaxAnswerLen == 7

Scheme == "http://"

ExtractAlphabet == {Scheme, "a", ".", " ", "\n"}

\* length of the longest prefix of s whose elements are all in S
RECURSIVE RunIn(_, _)
RunIn(s, S) == IF s # <<>> /\ Head(s) \in S THEN 1 + RunIn(Tail(s), S) ELSE 0

\* length of the longest prefix of s with no element in S
RECURSIVE RunNotIn(_, _)
RunNotIn(s, S) == IF s # <<>> /\ Head(s) \notin S THEN 1 + RunNotIn(Tail(s), S) ELSE 0

Drop(s, n) == SubSeq(s, n + 1, Len(s))

IsPrefix(p, s) == Len(p) <= Len(s) /\ SubSeq(s, 1, Len(p)) = p

\* re.findall(r'https?://[^\s\n]+', s): leftmost, greedy, non-overlapping
RECURSIVE findall(_)
findall(s) ==
    IF s = <<>> THEN <<>>
    ELSE IF Head(s) = Scheme /\ Len(s) >= 2 /\ ~IsSpace(s[2])
    THEN <<SubSeq(s, 1, RunNotIn(s, Whitespace))>> \o findall(Drop(s, RunNotIn(s, Whitespace)))
    ELSE findall(Tail(s))

\* url.rstrip('.,;:!?)')
RECURSIVE rstrip_punct(_)
rstrip_punct(u) ==
    IF u # <<>> /\ u[Len(u)] \in {".", ",", ";", ":", "!", "?", ")"}
    THEN rstrip_punct(SubSeq(u, 1, Len(u) - 1))
    ELSE u

\* utils.py:197-202  the urls list built from the matches
RECURSIVE CollectUrls(_)
CollectUrls(matches) ==
    IF matches = <<>> THEN <<>>
    ELSE LET url == rstrip_punct(strip(Head(matches)))
         IN  (IF url # <<>> THEN <<url>> ELSE <<>>) \o CollectUrls(Tail(matches))

\* re.sub(r'\s*' + re.escape(url) + r'\s*\n?', ' ', s) and
\* re.sub(r'\n?\s*' + re.escape(url) + r'\s*', ' ', s): \n is in \s and \s*
\* is greedy, so both patterns match a whitespace run, the url, a whitespace
\* run; the leftmost match at a position exists iff the url follows the
\* whitespace run that starts there.
RECURSIVE sub_url(_, _)
sub_url(s, url) ==
    IF s = <<>> THEN <<>>
    ELSE LET rest == Drop(s, RunIn(s, Whitespace))
         IN  IF IsPrefix(url, rest)
             THEN LET after == Drop(rest, Len(url))
                  IN  <<" ">> \o sub_url(Drop(after, RunIn(after, Whitespace)), url)
             ELSE <<Head(s)>> \o sub_url(Tail(s), url)

\* utils.py:205-210  the removal loop: two substitutions per url, in list order
RECURSIVE RemoveUrls(_, _)
RemoveUrls(s, urls) ==
    IF urls = <<>> THEN s
    ELSE RemoveUrls(sub_url(sub_url(s, Head(urls)), Head(urls)), Tail(urls))

\* re.sub(r'\n\s*\n+', '\n\n', s): from a newline, through the last newline
\* of the whitespace run it starts
RECURSIVE CollapseBlankLines(_)
CollapseBlankLines(s) ==
    IF s = <<>> THEN <<>>
    ELSE LET later == { k \in 2..RunIn(s, Whitespace) : s[k] = "\n" }
         IN  IF Head(s) = "\n" /\ later # {}
             THEN <<"\n", "\n">> \o CollapseBlankLines(Drop(s, Max(later)))
             ELSE <<Head(s)>> \o CollapseBlankLines(Tail(s))

\* [ \t]
Blank == {" ", "\t"}

\* re.sub(r'[ \t]+', ' ', s)
RECURSIVE CollapseSpaces(_)
CollapseSpaces(s) ==
    IF s = <<>> THEN <<>>
    ELSE IF Head(s) \in Blank THEN <<" ">> \o CollapseSpaces(Drop(s, RunIn(s, Blank)))
    ELSE <<Head(s)>> \o CollapseSpaces(Tail(s))

\* re.sub(r'\n ', '\n', s)
RECURSIVE RemoveSpaceAfterNewline(_)
RemoveSpaceAfterNewline(s) ==
    IF s = <<>> THEN <<>>
    ELSE IF Len(s) >= 2 /\ s[1] = "\n" /\ s[2] = " "
    THEN <<"\n">> \o RemoveSpaceAfterNewline(Drop(s, 2))
    ELSE <<Head(s)>> \o RemoveSpaceAfterNewline(Tail(s))

\* the whole function: <<stripped_answer, urls>>
extract_source_urls(a) ==
    LET urls == CollectUrls(findall(a))
        stripped_answer ==
            strip(RemoveSpaceAfterNewline(CollapseSpaces(CollapseBlankLines(
                RemoveUrls(a, urls)))))
    IN  <<stripped_answer, urls>>

ExtractInit ==
    /\ ChunkIdle /\ CleanIdle /\ ContextIdle /\ IngestIdle
    /\ answer \in StringsUpTo(ExtractAlphabet, MaxAnswerLen)
    /\ pass1 = << <<>>, <<>> >>
    /\ pass2 = << <<>>, <<>> >>
    /\ ex_pc = "call"

\* extract_source_urls(answer)
ExtractCall ==
    /\ ex_pc = "call"
    /\ pass1' = extract_source_urls(answer)
    /\ ex_pc' = "once"
    /\ UNCHANGED <<answer, pass2>>
    /\ UNCHANGED notExtract

\* extract_source_urls on the stripped answer of the first call
ExtractAgain ==
    /\ ex_pc = "once"
    /\ pass2' = extract_source_urls(pass1[1])
    /\ ex_pc' = "twice"
    /\ UNCHANGED <<answer, pass1>>
    /\ UNCHANGED notExtract

ExtractNext == ExtractCall \/ ExtractAgain

SpecExtract == ExtractInit /\ [][ExtractNext]_vars

\* C8: a second pass over the stripped answer finds no url and returns the
\* stripped answer unchanged.
C8_Idempotent ==
    ex_pc = "twice" => pass2 = <<pass1[1], <<>> >>

-----------------------------------------------------------------------------
(* build_context *)
(* A retrieved chunk is a record [text, url, title]; a chunk text is the   *)
(* empty string or one opaque non-whitespace element, and the header       *)
(* f"Source: {title} ({url})" is the string of its five pieces.            *)

MaxRetrieved == 3

ChunkTexts == { <<>>, <<"x">>, <<"z">> }

SourceUrls == {"A", "B"}

Titles == {"T1", "T2"}

RetrievedChunk == [text : ChunkTexts, url : SourceUrls, title : Titles]

\* index of the entry of the ordered dict d for key u, 0 when absent
EntryOf(d, u) ==
    IF \E k \in 1..Len(d) : d[k].url = u
    THEN CHOOSE k \in 1..Len(d) : d[k].url = u
    ELSE 0

\* a grouping that opens a new entry for every chunk
AddChunkNewEntryEachTime(d, c) ==
    IF c.text = <<>> THEN d
    ELSE Append(d, [url |-> c.url, title |-> c.title, chunks |-> <<c.text>>])

\* utils.py:167-177  one pass of the grouping loop over the dict, kept as
\* the sequence of its entries in insertion order
AddChunk(d, c) ==
    IF c.text = <<>> THEN d
    ELSE IF EntryOf(d, c.url) = 0
    THEN Append(d, [url |-> c.url, title |-> c.title, chunks |-> <<c.text>>])
    ELSE [d EXCEPT ![EntryOf(d, c.url)].chunks = Append(@, c.text)]

RECURSIVE GroupByUrl(_, _)
GroupByUrl(sc, d) ==
    IF sc = <<>> THEN d ELSE GroupByUrl(Tail(sc), AddChunk(d, Head(sc)))

Header(title, url) == <<"Source: ", title, " (", url, ")">>

\* utils.py:180-188  header, the chunks, and an empty part, per entry
RECURSIVE ContextParts(_)
ContextParts(d) ==
    IF d = <<>> THEN <<>>
    ELSE <<Header(Head(d).title, Head(d).url)>> \o Head(d).chunks \o << <<>> >>
         \o ContextParts(Tail(d))

\* '\n\n'.join(parts)
RECURSIVE Join(_)
Join(parts) ==
    IF parts = <<>> THEN <<>>
    ELSE IF Len(parts) = 1 THEN Head(parts)
    ELSE Head(parts) \o <<"\n", "\n">> \o Join(Tail(parts))

\* the whole function
build_context(sc) == strip(Join(ContextParts(GroupByUrl(sc, <<>>))))

ContextInit ==
    /\ ChunkIdle /\ CleanIdle /\ ExtractIdle /\ IngestIdle
    /\ similar_chunks \in UNION { [1..k -> RetrievedChunk] : k \in 0..MaxRetrieved }
    /\ context = <<>>
    /\ ctx_pc = "call"

ContextCall ==
    /\ ctx_pc = "call"
    /\ context' = build_context(similar_chunks)
    /\ ctx_pc' = "returned"
    /\ UNCHANGED similar_chunks
    /\ UNCHANGED notContext

ContextNext == ContextCall

SpecContext == ContextInit /\ [][ContextNext]_vars

\* the paragraphs of a context: its pieces between "\n\n" separators
RECURSIVE Paragraphs(_)
Paragraphs(s) ==
    LET n == RunNotIn(s, {"\n"})
    IN  IF n = Len(s) THEN <<s>>
        ELSE <<SubSeq(s, 1, n)>> \o Paragraphs(Drop(s, n + 2))

IsHeader(p) == p # <<>> /\ p[1] = "Source: "

\* positions of the header paragraphs of the returned context, in order
HeaderPositions ==
    LET ps == Paragraphs(context)
    IN  { k \in 1..Len(ps) : IsHeader(ps[k]) }

HeaderUrlAt(k) == Paragraphs(context)[k][4]

NonEmpty(p) == p # <<>>

\* the non-empty paragraphs after header k up to the next header (the empty
\* part that closes a block leaves an empty paragraph between two blocks)
BlockAt(k) ==
    LET ps == Paragraphs(context)
        nxt == { j \in HeaderPositions : j > k }
        last == IF nxt = {} THEN Len(ps) ELSE (CHOOSE j \in nxt : \A i \in nxt : j <= i) - 1
    IN  SelectSeq(SubSeq(ps, k + 1, last), NonEmpty)

\* the non-empty chunk texts of url u, in input order
RECURSIVE TextsOf(_, _)
TextsOf(sc, u) ==
    IF sc = <<>> THEN <<>>
    ELSE (IF Head(sc).url = u /\ Head(sc).text # <<>> THEN <<Head(sc).text>> ELSE <<>>)
         \o TextsOf(Tail(sc), u)

UrlsWithText == { u \in SourceUrls : TextsOf(similar_chunks, u) # <<>> }

FirstAppearance(u) ==
    CHOOSE k \in 1..Len(similar_chunks) :
        /\ similar_chunks[k].url = u
        /\ \A j \in 1..(k - 1) : similar_chunks[j].url # u

FirstTextAppearance(u) ==
    CHOOSE k \in 1..Len(similar_chunks) :
        /\ similar_chunks[k].url = u /\ similar_chunks[k].text # <<>>
        /\ \A j \in 1..(k - 1) :
              ~(similar_chunks[j].url = u /\ similar_chunks[j].text # <<>>)

\* one header per url with a non-empty chunk text, and under each header
\* that url's chunk texts in input order
OneBlockPerUrl ==
    /\ { HeaderUrlAt(k) : k \in HeaderPositions } = UrlsWithText
    /\ Cardinality(HeaderPositions) = Cardinality(UrlsWithText)
    /\ \A k \in HeaderPositions :
          BlockAt(k) = TextsOf(similar_chunks, HeaderUrlAt(k))

\* C9 as stated: one block per url, headers in order of the url's first
\* appearance in the input.
C9_AsStated ==
    ctx_pc = "returned" =>
        /\ OneBlockPerUrl
        /\ \A k, j \in HeaderPositions :
              k < j => FirstAppearance(HeaderUrlAt(k)) < FirstAppearance(HeaderUrlAt(j))

\* C9 (amended): one block per url with a non-empty chunk text, under each
\* header that url's chunk texts in input order, headers in order of the
\* url's first chunk with a non-empty text.
C9_Grouped ==
    ctx_pc = "returned" =>
        /\ OneBlockPerUrl
        /\ \A k, j \in HeaderPositions :
              k < j => FirstTextAppearance(HeaderUrlAt(k)) < FirstTextAppearance(HeaderUrlAt(j))

\* the spec's example shape: A, B, A again, all with text
C9_Witness ==
    /\ ctx_pc = "returned"
    /\ Len(similar_chunks) = 3
    /\ similar_chunks[1].url = "A" /\ similar_chunks[1].text = <<"x">>
    /\ similar_chunks[2].url = "B" /\ similar_chunks[2].text # <<>>
    /\ similar_chunks[3].url = "A" /\ similar_chunks[3].text = <<"z">>
    /\ Cardinality(HeaderPositions) = 2

-----------------------------------------------------------------------------
(* chunk_text *)

ChunkAlphabet == {"a", ".", " ", "\n"}

\* max of the four rfind calls
sentence_end(t, s, e) ==
    Max({ rfind(t, ".", s, e), rfind(t, "!", s, e),
          rfind(t, "?", s, e), rfind(t, "\n", s, e) })

\* value of `end` when the chunk is cut
ChunkEnd(t, s, cs) ==
    LET e == s + cs
    IN  IF e < Len(t) /\ sentence_end(t, s, e) > s
        THEN sentence_end(t, s, e) + 1
        ELSE e

\* a cursor moved past the end of the slice by the overlap
NextStartGap(e, ov) == e + ov

\* start = end - overlap
NextStart(e, ov) == e - ov

\* vector_utils.py:60-61  return [text] if text else []
EarlyReturn(t) == IF t # <<>> THEN <<t>> ELSE <<>>

\* vector_utils.py:60  the short-text guard; utils.py has none
TakesEarlyReturn(i, t, cs) ==
    i = "vector_utils" /\ (t = <<>> \/ Len(t) <= cs)

ChunkInit ==
    /\ CleanIdle /\ ExtractIdle /\ ContextIdle /\ IngestIdle
    /\ text \in StringsUpTo(ChunkAlphabet, MaxTextLen)
    /\ chunk_size \in 1..MaxChunkSize
    /\ overlap \in 0..(chunk_size - 1)
    /\ impl \in {"utils", "vector_utils"}
    /\ start = 0
    /\ chunks = <<>>
    /\ ranges = <<>>
    /\ cpc = "call"

\* function entry up to the first evaluation of the while condition
ChunkCall ==
    /\ cpc = "call"
    /\ IF TakesEarlyReturn(impl, text, chunk_size)
       THEN /\ chunks' = EarlyReturn(text)
            /\ ranges' = IF text # <<>> THEN << <<0, Len(text)>> >> ELSE <<>>
            /\ cpc' = "returned"
       ELSE /\ chunks' = <<>>
            /\ ranges' = <<>>
            /\ cpc' = "loop"
    /\ start' = 0
    /\ UNCHANGED <<text, chunk_size, overlap, impl>>
    /\ UNCHANGED notChunk

\* one pass through the while body
ChunkIterate ==
    /\ cpc = "loop"
    /\ start < Len(text)
    /\ Len(ranges) < MaxIters
    /\ LET end == ChunkEnd(text, start, chunk_size)
           chunk == strip(Slice(text, start, end))
       IN  /\ chunks' = IF chunk # <<>> THEN Append(chunks, chunk) ELSE chunks
           /\ ranges' = Append(ranges, <<start, end>>)
           /\ start' = NextStart(end, overlap)
           /\ cpc' = IF NextStart(end, overlap) >= Len(text) THEN "returned" ELSE "loop"
    /\ UNCHANGED <<text, chunk_size, overlap, impl>>
    /\ UNCHANGED notChunk

\* while condition false: fall out of the loop and return chunks
ChunkReturn ==
    /\ cpc = "loop"
    /\ ~(start < Len(text))
    /\ cpc' = "returned"
    /\ UNCHANGED <<text, chunk_size, overlap, impl, start, chunks, ranges>>
    /\ UNCHANGED notChunk

ChunkNext == ChunkCall \/ ChunkIterate \/ ChunkReturn

SpecChunk == ChunkInit /\ [][ChunkNext]_vars

-----------------------------------------------------------------------------
(* Claims about chunk_text *)

\* C1: every loop iteration of chunk_text moves the cursor `start` forward
\* (so the loop ends after finitely many iterations).
C1_Progress == [][(cpc = "loop" /\ ranges' # ranges) => start' > start]_vars

\* the set of text positions a Python slice [s:e] reads
Covered(r, n) == { k \in 0..(n - 1) : PyIdx(r[1], n) <= k /\ k < PyIdx(r[2], n) }

C4_ChunksTrimmed ==
    cpc = "returned" =>
        /\ \A k \in 1..Len(chunks) :
              /\ chunks[k] # <<>>
              /\ ~IsSpace(chunks[k][1])
              /\ ~IsSpace(chunks[k][Len(chunks[k])])
        /\ (text = <<>> => chunks = <<>>)

-----------------------------------------------------------------------------
(* scrape_api and the Pinecone helpers of vector_utils.py *)

MaxUrls == 2
MaxChunks == 2
MaxRuns == 2

\* views.py:148-153
urls == << "https://www.shermanstravel.com/cruise-destinations/alaska-itineraries",
           "https://www.shermanstravel.com/cruise-destinations/caribbean-and-bahamas",
           "https://www.shermanstravel.com/cruise-destinations/hawaiian-islands",
           "https://www.shermanstravel.com/cruise-destinations/northern-europe" >>

\* the urls the loop visits in the model: the first MaxUrls of the list
Urls == SubSeq(urls, 1, Min2(MaxUrls, Len(urls)))

\* hashlib.sha256(url.encode()).hexdigest(): an injective digest
hash_url(url) == <<"sha256", url>>

\* f"{url_hash}_{i}"
VectorId(url_hash, i) == url_hash \o <<"_", i>>

\* index.fetch(ids=...)['vectors']: the stored vectors with one of the ids
fetch(ids) == store \cap ids

\* a gate that reports the url present when the lookup raises
CheckUrlExistsFailClosed(url_hash, raises) == raises \/ fetch({url_hash}) # {}

\* vector_utils.py:179-186  raises: pc.Index or index.fetch raised
check_url_exists(url_hash, raises) ==
    IF raises THEN FALSE ELSE Cardinality(fetch({url_hash})) > 0

\* vector_utils.py:241
batch_size == 100

\* a loop that numbers the vectors by their position among the survivors
VectorsFromRenumbered(url_hash, i, n, failed) ==
    [ k \in 1..Cardinality((i..(n - 1)) \ failed) |->
        [id |-> VectorId(url_hash, i + k - 1), chunk_index |-> i + k - 1] ]

\* vector_utils.py:215-238  the vectors built for the chunks whose embedding
\* did not raise (failed: set of chunk positions whose get_embedding raised)
VectorsFrom(url_hash, i, n, failed) ==
    LET Embedded(vector) == vector.chunk_index \notin failed
    IN  SelectSeq([ k \in 1..(n - i) |->
                      [id |-> VectorId(url_hash, i + k - 1), chunk_index |-> i + k - 1] ],
                  Embedded)

\* vector_utils.py:106-107, 215-218  the sets of chunk positions at which
\* get_embedding raises: every position when OPENAI_KEY is not set, else any
\* set of positions among the first MaxChunks
EmbedFailures(n) ==
    IF openai_key THEN SUBSET (0..(Min2(n, MaxChunks) - 1)) ELSE { 0..(n - 1) }

\* range(0, len(vectors_to_upsert), batch_size), as batch numbers from 1
BatchNumbers(v) == 1..((Len(v) + batch_size - 1) \div batch_size)

\* vectors_to_upsert[i:i + batch_size] of batch number b
Batch(v, b) == SubSeq(v, (b - 1) * batch_size + 1, Min2(b * batch_size, Len(v)))

BatchIds(v, b) == { Batch(v, b)[k].id : k \in 1..Len(Batch(v, b)) }

\* a count that takes in every batch submitted, whether or not its upsert
\* raised
SumLenSubmitted(v, bs) == Len(v)

\* vector_utils.py:242-248  upserted_count after the batches bs succeeded
RECURSIVE SumLen(_, _)
SumLen(v, bs) ==
    IF bs = {} THEN 0
    ELSE LET b == CHOOSE x \in bs : TRUE
         IN  Len(Batch(v, b)) + SumLen(v, bs \ {b})

Result(url, status, message) == [url |-> url, status |-> status, message |-> message]

\* vector_utils.py:244-250  the calls of index.upsert made by the batch loop,
\* in order, when the calls for the batches in `bad` raise
UpsertCalls(v, bad) ==
    [ b \in BatchNumbers(v) |-> [vectors |-> Batch(v, b), raised |-> b \in bad] ]

\* views.py:267-275  the record of a url that was embedded and upserted
SuccessRecord(url) == Result(url, "success", "")

Count(rs, status) == Cardinality({ k \in 1..Len(rs) : rs[k].status = status })

\* an error branch that does not append its record
RecordResultDropErrors(rs, r) == IF r.status = "error" THEN rs ELSE Append(rs, r)

\* results.append(...)
RecordResult(rs, r) == Append(rs, r)

\* a de-dupe branch without its `continue`
GateVerdictIgnored(exists) == "embed"

\* views.py:239-247  the de-dupe branch: skip the url, or go on to embed
GateVerdict(exists) == IF exists THEN "skip" ELSE "embed"

\* the locals of a loop iteration, dead once the iteration has ended
ResetLocals ==
    /\ n_chunks' = 0
    /\ gate' = NoGate
    /\ embed_calls' = 0
    /\ upsert_calls' = 0
    /\ upserted' = NoUpsert

\* end of a loop iteration: results.append(r), then `continue` or the end
\* of the loop body
Finish(r) ==
    /\ results' = RecordResult(results, r)
    /\ idx' = idx + 1
    /\ pc' = IF idx >= Len(Urls) THEN "respond" ELSE "fetch"
    /\ ResetLocals

\* a step inside an iteration that only moves on to position p
Goto(p) ==
    /\ pc' = p
    /\ UNCHANGED <<idx, results, n_chunks, gate, embed_calls, upsert_calls, upserted>>

IngestInit ==
    /\ ChunkIdle /\ CleanIdle /\ ExtractIdle /\ ContextIdle
    /\ openai_key \in BOOLEAN
    /\ pinecone_key \in BOOLEAN
    /\ store = {}
    /\ run = 0
    /\ pc = "idle"
    /\ idx = 0
    /\ n_chunks = 0
    /\ results = <<>>
    /\ response = NoResponse
    /\ gate = NoGate
    /\ embed_calls = 0
    /\ upsert_calls = 0
    /\ upserted = NoUpsert

\* the index is shared with other writers: it may already hold vectors keyed
\* by the bare hash of a url; one request is followed, with both keys set
SeededInit ==
    /\ ChunkIdle /\ CleanIdle /\ ExtractIdle /\ ContextIdle
    /\ openai_key = TRUE
    /\ pinecone_key = TRUE
    /\ store \in SUBSET { hash_url(Urls[k]) : k \in 1..Len(Urls) }
    /\ run = MaxRuns - 1
    /\ pc = "idle"
    /\ idx = 0
    /\ n_chunks = 0
    /\ results = <<>>
    /\ response = NoResponse
    /\ gate = NoGate
    /\ embed_calls = 0
    /\ upsert_calls = 0
    /\ upserted = NoUpsert

\* views.py:155-166  a request arrives; init_pinecone raises without the key,
\* and the initialisation can raise for other reasons
StartRequest ==
    /\ pc = "idle"
    /\ run < MaxRuns
    /\ run' = run + 1
    /\ \E init_ok \in BOOLEAN :
          IF pinecone_key /\ init_ok
          THEN /\ pc' = "fetch"
               /\ idx' = 1
               /\ results' = <<>>
               /\ response' = NoResponse
          ELSE /\ pc' = "idle"
               /\ response' = [status |-> "error"]
               /\ UNCHANGED <<idx, results>>
    /\ UNCHANGED <<openai_key, pinecone_key, store, n_chunks, gate, embed_calls,
                   upsert_calls, upserted>>
    /\ UNCHANGED notIngest

\* views.py:170-175  start of an iteration: requests.get and raise_for_status
Fetch ==
    /\ pc = "fetch"
    /\ \E outcome \in {"ok", "request_exception", "exception"} :
          CASE outcome = "ok" -> Goto("parse")
            [] outcome = "request_exception" ->
                  Finish(Result(Urls[idx], "error", "Failed to fetch"))
            [] outcome = "exception" ->
                  Finish(Result(Urls[idx], "error", "Error processing"))
    /\ UNCHANGED <<openai_key, pinecone_key, store, run, response>>
    /\ UNCHANGED notIngest

\* views.py:177-211  parse the page and pick the main content
Parse ==
    /\ pc = "parse"
    /\ \E outcome \in {"content", "no_content", "exception"} :
          CASE outcome = "content" -> Goto("clean")
            [] outcome = "no_content" ->
                  Finish(Result(Urls[idx], "skipped", "No content found"))
            [] outcome = "exception" ->
                  Finish(Result(Urls[idx], "error", "Error processing"))
    /\ UNCHANGED <<openai_key, pinecone_key, store, run, response>>
    /\ UNCHANGED notIngest

\* views.py:214-222  clean_text and the length check
Clean ==
    /\ pc = "clean"
    /\ \E long_enough \in BOOLEAN :
          IF long_enough
          THEN Goto("chunk")
          ELSE Finish(Result(Urls[idx], "skipped", "Content too short after cleaning"))
    /\ UNCHANGED <<openai_key, pinecone_key, store, run, response>>
    /\ UNCHANGED notIngest

\* views.py:225-233  chunk_text(cleaned_text, 1000, 200).  The cleaned text
\* is stripped and at least 100 characters long, so a call that returns
\* returns at least one chunk.  A call whose loop does not advance appends
\* chunks until memory runs out: MemoryError is raised, or the process is
\* killed.
Chunk ==
    /\ pc = "chunk"
    /\ \/ \E n \in 1..MaxChunks :
             IF n = 0
             THEN Finish(Result(Urls[idx], "skipped", "No chunks created"))
             ELSE /\ n_chunks' = n
                  /\ pc' = "gate"
                  /\ UNCHANGED <<idx, results, gate, embed_calls, upsert_calls, upserted>>
       \/ Finish(Result(Urls[idx], "error", "Error processing"))
       \/ Goto("killed")
    /\ UNCHANGED <<openai_key, pinecone_key, store, run, response>>
    /\ UNCHANGED notIngest

\* views.py:236-239  hash_url and the call of check_url_exists
CheckUrlExists ==
    /\ pc = "gate"
    /\ \E raises \in BOOLEAN :
          gate' = [raised |-> raises,
                   exists |-> check_url_exists(hash_url(Urls[idx]), raises)]
    /\ pc' = "gated"
    /\ UNCHANGED <<openai_key, pinecone_key, store, run, idx, n_chunks, results,
                   response, embed_calls, upsert_calls, upserted>>
    /\ UNCHANGED notIngest

\* views.py:239-247  the de-dupe branch
Dedupe ==
    /\ pc = "gated"
    /\ IF GateVerdict(gate.exists) = "skip"
       THEN Finish(Result(Urls[idx], "skipped",
                          "URL already exists in Pinecone (de-duped)"))
       ELSE Goto("upsert")
    /\ UNCHANGED <<openai_key, pinecone_key, store, run, response>>
    /\ UNCHANGED notIngest

\* views.py:250-265 and vector_utils.py:211: the call of
\* upsert_chunks_to_pinecone; pc.Index is outside any try, and when it raises
\* the handler records the url as an error
OpenIndex ==
    /\ pc = "upsert"
    /\ \E raises \in BOOLEAN :
          IF raises
          THEN Finish(Result(Urls[idx], "error", "Error processing"))
          ELSE Goto("embed")
    /\ UNCHANGED <<openai_key, pinecone_key, store, run, response>>
    /\ UNCHANGED notIngest

\* vector_utils.py:213-252  the two loops of upsert_chunks_to_pinecone:
\* get_embedding raises for each chunk in `failed` (for every chunk without
\* OPENAI_KEY); index.upsert raises for each batch in `bad`
Upsert ==
    /\ pc = "embed"
    /\ \E failed \in EmbedFailures(n_chunks) :
          LET v == VectorsFrom(hash_url(Urls[idx]), 0, n_chunks, failed)
          IN  \E bad \in SUBSET BatchNumbers(v) :
                 /\ store' = store \cup
                       UNION { BatchIds(v, b) : b \in BatchNumbers(v) \ bad }
                 /\ embed_calls' = n_chunks
                 /\ upsert_calls' = Cardinality(BatchNumbers(v))
                 /\ upserted' = [failed |-> failed,
                                 vectors |-> v,
                                 calls |-> UpsertCalls(v, bad),
                                 count |-> SumLen(v, BatchNumbers(v) \ bad)]
    /\ pc' = "success"
    /\ UNCHANGED <<idx, results, n_chunks, gate>>
    /\ UNCHANGED <<openai_key, pinecone_key, run, response>>
    /\ UNCHANGED notIngest

\* views.py:267-275  the success record
AppendSuccess ==
    /\ pc = "success"
    /\ Finish(SuccessRecord(Urls[idx]))
    /\ UNCHANGED <<openai_key, pinecone_key, store, run, response>>
    /\ UNCHANGED notIngest

\* views.py:290-297
Respond ==
    /\ pc = "respond"
    /\ response' = [status |-> "completed",
                    results |-> results,
                    total_urls |-> Len(Urls),
                    successful |-> Count(results, "success"),
                    skipped |-> Count(results, "skipped"),
                    errors |-> Count(results, "error")]
    /\ pc' = "idle"
    /\ UNCHANGED <<openai_key, pinecone_key, store, run, idx, n_chunks, results, gate,
                   embed_calls, upsert_calls, upserted>>
    /\ UNCHANGED notIngest

Next ==
    \/ StartRequest
    \/ Fetch
    \/ Parse
    \/ Clean
    \/ Chunk
    \/ CheckUrlExists
    \/ Dedupe
    \/ OpenIndex
    \/ Upsert
    \/ AppendSuccess
    \/ Respond

Spec == IngestInit /\ [][Next]_vars

\* upsert_chunks_to_pinecone on its own: one call, for the first url, with a
\* chunk list whose length is at or next to a multiple of batch_size
MaxBatches == 3

ChunkCounts ==
    { n \in 1..(MaxBatches * batch_size) :
        \E b \in 0..MaxBatches : n - b * batch_size \in -1..1 }

UpsertInit ==
    /\ ChunkIdle /\ CleanIdle /\ ExtractIdle /\ ContextIdle
    /\ openai_key = TRUE
    /\ pinecone_key = TRUE
    /\ store = {}
    /\ run = 1
    /\ pc = "upsert"
    /\ idx = 1
    /\ n_chunks \in ChunkCounts
    /\ results = <<>>
    /\ response = NoResponse
    /\ gate = NoGate
    /\ embed_calls = 0
    /\ upsert_calls = 0
    /\ upserted = NoUpsert

UpsertNext == OpenIndex \/ Upsert

SpecUpsert == UpsertInit /\ [][UpsertNext]_vars

SpecSeeded == SeededInit /\ [][Next]_vars

-----------------------------------------------------------------------------
(* Claims about scrape_api *)

\* some chunk vector of url u is in the index
HasChunkOf(u) == \E i \in 0..(MaxChunks - 1) : VectorId(hash_url(u), i) \in store

\* C2: once upsert_chunks_to_pinecone has written a chunk of a url, a lookup
\* of that url by check_url_exists that does not raise reports it present.
C2_Dedup ==
    (pc = "gated" /\ ~gate.raised /\ HasChunkOf(Urls[idx])) => gate.exists

\* C5: a completed response holds one result per url, in url order, each
\* success, skipped or error, and the three counts add up to total_urls.
C5_OneResultPerUrl ==
    response.status = "completed" =>
        /\ Len(response.results) = Len(Urls)
        /\ \A k \in 1..Len(Urls) :
              /\ response.results[k].url = Urls[k]
              /\ response.results[k].status \in {"success", "skipped", "error"}
        /\ response.total_urls = Len(Urls)
        /\ response.successful + response.skipped + response.errors
              = response.total_urls

\* a completed response that holds an error record next to a record of
\* another kind
C5_Witness ==
    /\ response.status = "completed"
    /\ response.errors >= 1
    /\ response.successful + response.skipped >= 1

DedupedRecord(url) == Result(url, "skipped", "URL already exists in Pinecone (de-duped)")

\* C6: when the gate has reported the url present, the next step of the
\* handler records the url as skipped (de-duped) and ends its iteration with
\* the index unchanged; get_embedding and index.upsert are called, and the
\* index changes, only in the loops of upsert_chunks_to_pinecone for a url
\* the gate reported absent.
C6_SkipIsFrameFree ==
    [][ /\ (pc = "gated" /\ gate.exists) =>
              /\ results' = Append(results, DedupedRecord(Urls[idx]))
              /\ pc' \in {"fetch", "respond"}
              /\ embed_calls' = 0 /\ upsert_calls' = 0
              /\ store' = store
        /\ (store' # store \/ embed_calls' > embed_calls \/ upsert_calls' > upsert_calls) =>
              (pc = "embed" /\ ~gate.exists)
      ]_vars

\* a url has been recorded as skipped (de-duped), another has been embedded
C6_Witness ==
    /\ \E k \in 1..Len(results) : results[k] = DedupedRecord(Urls[k])
    /\ \E k \in 1..Len(results) : results[k].status = "success"

\* C7: a lookup that raises makes check_url_exists return False, and the
\* handler then records nothing for the url and goes on to
\* upsert_chunks_to_pinecone.
C7_FailOpen ==
    [][(pc = "gated" /\ gate.raised) =>
          (~gate.exists /\ pc' = "upsert" /\ results' = results)]_vars

\* the lookup raised and the url went on to be embedded and upserted
C7_Witness ==
    /\ gate.raised
    /\ pc = "success"
    /\ embed_calls > 0
    /\ upsert_calls > 0

\* C12: when OPENAI_KEY or PINECONE_KEY is not configured, scrape_api ends
\* with an error before it fetches any url: the handler never enters its
\* per-url loop, no url is recorded as success, and no response is
\* "completed".
C12_CredentialsFatal ==
    (~openai_key \/ ~pinecone_key) =>
        /\ pc = "idle"
        /\ \A k \in 1..Len(results) : results[k].status # "success"
        /\ response.status # "completed"

\* C13: in the embedding loop of upsert_chunks_to_pinecone, whatever set F of
\* chunk positions has its get_embedding raise, every chunk is tried, the
\* chunks at the positions outside F are queued in increasing position, each
\* with id {url_hash}_{i} and chunk_index i for its position i in the
\* document, and the function returns; the handler then records the url as
\* success and goes on to the next url.
C13_EmbeddingIsolated ==
    [][ /\ pc = "embed" =>
              /\ pc' = "success"
              /\ results' = results /\ idx' = idx
              /\ embed_calls' = n_chunks
              /\ LET F == upserted'.failed
                     v == upserted'.vectors
                     kept == (0..(n_chunks - 1)) \ F
                 IN  /\ F \subseteq 0..(n_chunks - 1)
                     /\ { v[k].chunk_index : k \in 1..Len(v) } = kept
                     /\ \A j, k \in 1..Len(v) :
                           j < k => v[j].chunk_index < v[k].chunk_index
                     /\ \A k \in 1..Len(v) :
                           v[k].id = VectorId(hash_url(Urls[idx]), v[k].chunk_index)
        /\ pc = "success" =>
              /\ results' = Append(results, SuccessRecord(Urls[idx]))
              /\ idx' = idx + 1
              /\ pc' \in {"fetch", "respond"}
      ]_vars

\* an embedding raised at a position before that of a chunk that was queued,
\* and the function returned
C13_Witness ==
    /\ pc = "success"
    /\ \E i \in upserted.failed : \E k \in 1..Len(upserted.vectors) :
          /\ upserted.vectors[k].chunk_index > i
          /\ upserted.vectors[k].id = VectorId(hash_url(Urls[idx]), i + 1)

\* the vectors of a sequence of index.upsert calls, one after the other
RECURSIVE Submitted(_)
Submitted(calls) ==
    IF calls = <<>> THEN <<>> ELSE Head(calls).vectors \o Submitted(Tail(calls))

\* the vectors of the calls that did not raise
RECURSIVE Accepted(_)
Accepted(calls) ==
    IF calls = <<>> THEN <<>>
    ELSE (IF Head(calls).raised THEN <<>> ELSE Head(calls).vectors)
         \o Accepted(Tail(calls))

\* C14: when upsert_chunks_to_pinecone has returned, the index.upsert calls
\* it made carry, one after the other, exactly the queued vectors in order
\* (so every batch was submitted once, and the batches after one that raised
\* were still submitted); every batch but the last holds batch_size vectors
\* and the last holds between 1 and batch_size; the index holds the vectors
\* of the calls that did not raise; and the returned count is their number,
\* between 0 and the number of chunks.
C14_BatchAccounting ==
    pc = "success" =>
        LET calls == upserted.calls
            ok == Accepted(calls)
        IN  /\ Submitted(calls) = upserted.vectors
            /\ upsert_calls = Len(calls)
            /\ \A k \in 1..Len(calls) :
                  /\ Len(calls[k].vectors) \in 1..batch_size
                  /\ k < Len(calls) => Len(calls[k].vectors) = batch_size
            /\ store = { ok[k].id : k \in 1..Len(ok) }
            /\ upserted.count = Len(ok)
            /\ upserted.count \in 0..n_chunks

\* three batches were submitted, the second raised and the third was still
\* upserted; an embedding had failed, and the last batch is a short one
C14_Witness ==
    /\ pc = "success"
    /\ upserted.failed # {}
    /\ Len(upserted.calls) = 3
    /\ ~upserted.calls[1].raised
    /\ upserted.calls[2].raised
    /\ ~upserted.calls[3].raised
    /\ Len(upserted.calls[3].vectors) < batch_size
    /\ upserted.count = batch_size + Len(upserted.calls[3].vectors)

====
